---- MODULE Spec2Model ----
(***************************************************************************)
(* Model of Wcdctool/modules/ArgumentParser.py: a table-driven wrapper     *)
(* around argparse.ArgumentParser.  Descriptor dictionaries live in a heap *)
(* (Python dicts are shared by reference), descriptor lists are sequences  *)
(* of heap references, and strings are sequences of one-character strings  *)
(* so that upper(), len(), "%" formatting and padding are computed.        *)
(***************************************************************************)
EXTENDS Integers, Sequences, FiniteSets, TLC

\* ------------------------------------------------------------------------
\* Bounds of the model
\* ------------------------------------------------------------------------

\* longest descriptor list handed to the first constructor call
MaxOpts == 2

\* longest descriptor list when two parsers are built side by side
MaxOpts2 == 1

\* longest simulated command line
MaxArgv == 2

\* ------------------------------------------------------------------------
\* Python values
\* ------------------------------------------------------------------------

\* marker of a key that is not in a descriptor dict
Absent == <<"<absent>">>

VNone == [t |-> "none", s |-> <<>>, b |-> FALSE, l |-> <<>>]

VStr(s) == [t |-> "str", s |-> s, b |-> FALSE, l |-> <<>>]

VBool(b) == [t |-> "bool", s |-> <<>>, b |-> b, l |-> <<>>]

VList(l) == [t |-> "list", s |-> <<>>, b |-> FALSE, l |-> l]

\* nargs values: an integer count, one of "?", "+", "*", Python None, or no key
NargsInt(n) == [kind |-> "int", n |-> n]

NargsSym(s) == [kind |-> s, n |-> 0]

NargsNone == [kind |-> "None", n |-> 0]

NargsAbsent == [kind |-> "absent", n |-> 0]

\* ------------------------------------------------------------------------
\* Module globals
\* ------------------------------------------------------------------------

\* "Invalid command line. Use --help to display available options."
MSG_SYNTAX_ERROR ==
  <<"I","n","v","a","l","i","d"," ","c","o","m","m","a","n","d"," ","l","i",
    "n","e","."," ","U","s","e"," ","-","-","h","e","l","p"," ","t","o"," ",
    "d","i","s","p","l","a","y"," ","a","v","a","i","l","a","b","l","e"," ",
    "o","p","t","i","o","n","s",".">>

\* "Usage: %s [OPTION]... %s\n\nOptions:"
MSG_USAGE_HELP ==
  <<"U","s","a","g","e",":"," ","%","s"," ","[","O","P","T","I","O","N","]",
    ".",".","."," ","%","s","\n","\n","O","p","t","i","o","n","s",":">>

Descriptor(type, name, short, long, arg, nargs, help) ==
  [type |-> type, name |-> name, short |-> short, long |-> long, arg |-> arg,
   nargs |-> nargs, default |-> Absent, display |-> Absent, help |-> help,
   syntax |-> Absent]

OPT_DEFAULT_HELP ==
  Descriptor("help", <<"h","e","l","p">>, <<"-","h">>,
             <<"-","-","h","e","l","p">>, Absent, NargsAbsent,
             <<"D","i","s","p","l","a","y"," ","t","h","i","s"," ","m","e",
               "s","s","a","g","e">>)

EXITCODE_ERROR == 2

EXITCODE_USAGE == 0

\* ------------------------------------------------------------------------
\* Caller inputs: descriptors, messages, exit codes, command lines
\* ------------------------------------------------------------------------

OptPretend ==
  Descriptor("switch", <<"p","r","e","t","e","n","d">>, <<"-","p">>,
             <<"-","-","p","r","e","t","e","n","d">>, Absent, NargsAbsent,
             <<"N","o"," ","c","h","a","n","g","e","s"," ","(","d","r","y",
               " ","r","u","n",")">>)

OptLogfile ==
  Descriptor("normal", <<"l","o","g","f","i","l","e">>, <<"-","l">>,
             <<"-","-","l","o","g","f","i","l","e">>, <<"f","i","l","e">>,
             NargsAbsent,
             <<"L","o","g"," ","f","i","l","e"," ","t","o"," ","w","r","i",
               "t","e"," ","t","o">>)

OptHelp ==
  Descriptor("help", <<"h","e","l","p">>, <<"-","h">>,
             <<"-","-","h","e","l","p">>, Absent, NargsAbsent,
             <<"D","i","s","p","l","a","y"," ","t","h","i","s"," ","m","e",
               "s","s","a","g","e">>)

\* a second help descriptor with flag spellings of its own
OptUsage ==
  Descriptor("help", <<"u","s","a","g","e">>, <<"-","u">>,
             <<"-","-","u","s","a","g","e">>, Absent, NargsAbsent,
             <<"S","h","o","w"," ","u","s","a","g","e">>)

OptInfile ==
  Descriptor("positional", <<"i","n","f","i","l","e">>, Absent, Absent,
             Absent, NargsSym("+"),
             <<"I","n","p","u","t"," ","f","i","l","e","s">>)

OptOutfile ==
  Descriptor("positional", <<"o","u","t","f","i","l","e">>, Absent, Absent,
             Absent, NargsInt(1),
             <<"O","u","t","p","u","t"," ","f","i","l","e">>)

OptDestination ==
  Descriptor("positional",
             <<"d","e","s","t","i","n","a","t","i","o","n","_","d","i","r">>,
             Absent, Absent, Absent, NargsSym("?"),
             <<"T","a","r","g","e","t">>)

OptExtra ==
  Descriptor("positional", <<"e","x","t","r","a">>, Absent, Absent, Absent,
             NargsSym("*"), <<"M","o","r","e">>)

OptPair ==
  [Descriptor("positional", <<"p","a","i","r">>, Absent, Absent, Absent,
              NargsInt(2), <<"T","w","o">>)
   EXCEPT !.display = <<"i","t","e","m">>]

\* a descriptor whose type is none of the four kinds
OptBogus ==
  Descriptor("flag", <<"v","e","r","b","o","s","e">>, <<"-","v">>,
             <<"-","-","v","e","r","b","o","s","e">>, Absent, NargsAbsent,
             <<"B","e"," ","l","o","u","d">>)

Pool ==
  {OptPretend, OptLogfile, OptHelp, OptUsage, OptInfile, OptOutfile,
   OptDestination, OptExtra, OptPair, OptBogus}

\* descriptors used when two parsers are built side by side
Pool2 == {OptHelp, OptOutfile}

\* "Invalid or insufficient command line. Use %s for detailed usage information."
msg_error_example ==
  <<"I","n","v","a","l","i","d"," ","o","r"," ","i","n","s","u","f","f","i",
    "c","i","e","n","t"," ","c","o","m","m","a","n","d"," ","l","i","n","e",
    "."," ","U","s","e"," ","%","s"," ","f","o","r"," ","d","e","t","a","i",
    "l","e","d"," ","u","s","a","g","e"," ","i","n","f","o","r","m","a","t",
    "i","o","n",".">>

\* "Usage: %s [OPTION]... %s\n\nExample usage.\n\nOptions:"
msg_usage_example ==
  <<"U","s","a","g","e",":"," ","%","s"," ","[","O","P","T","I","O","N","]",
    ".",".","."," ","%","s","\n","\n","E","x","a","m","p","l","e"," ","u",
    "s","a","g","e",".","\n","\n","O","p","t","i","o","n","s",":">>

\* the constructor's keyword defaults, and a caller that passes all four
DefaultConfig ==
  [msg_error |-> MSG_SYNTAX_ERROR, exc_error |-> EXITCODE_ERROR,
   msg_usage |-> MSG_USAGE_HELP, exc_usage |-> EXITCODE_USAGE]

Configs ==
  {DefaultConfig,
   [msg_error |-> msg_error_example, exc_error |-> 3,
    msg_usage |-> msg_usage_example, exc_usage |-> 1]}

\* sys.argv[0]
Argv0s == {<<"/","b","i","n","/","t","o","o","l">>}

\* command line words
Tokens ==
  {<<"a">>, <<"-","p">>, <<"-","h">>, <<"-","l","=","x">>,
   <<"-","-","b","o","g","u","s">>}

\* messages the engine passes to error()
EngineMessages ==
  {"unrecognized arguments", "the following arguments are required"}

SeqsUpTo(S, n) == UNION {[1..k -> S] : k \in 0..n}

\* ------------------------------------------------------------------------
\* String operations used by the module
\* ------------------------------------------------------------------------

LowerCase ==
  <<"a","b","c","d","e","f","g","h","i","j","k","l","m","n","o","p","q","r",
    "s","t","u","v","w","x","y","z">>

UpperCase ==
  <<"A","B","C","D","E","F","G","H","I","J","K","L","M","N","O","P","Q","R",
    "S","T","U","V","W","X","Y","Z">>

\* str.upper()
upper(s) ==
  [i \in 1..Len(s) |->
     IF \E k \in 1..Len(LowerCase) : LowerCase[k] = s[i]
     THEN UpperCase[CHOOSE k \in 1..Len(LowerCase) : LowerCase[k] = s[i]]
     ELSE s[i]]

FirstAt(s, c) ==
  LET hits == {i \in 1..Len(s) : s[i] = c}
  IN IF hits = {} THEN 0 ELSE CHOOSE i \in hits : \A j \in hits : i <= j

RECURSIVE Format(_, _)
\* template % args: each "%s" takes the next argument, "%%" is a percent
\* sign; an argument left over or missing is a TypeError (ok = FALSE)
Format(template, args) ==
  LET pct == FirstAt(template, "%")
      conv == IF pct < Len(template) THEN template[pct + 1] ELSE ""
      literal == SubSeq(template, 1, pct - 1)
      r == Format(SubSeq(template, pct + 2, Len(template)),
                  IF conv = "s" THEN Tail(args) ELSE args)
  IN IF pct = 0 THEN [ok |-> args = <<>>, text |-> template]
     ELSE IF conv = "%" THEN [ok |-> r.ok, text |-> literal \o <<"%">> \o r.text]
     ELSE IF conv = "s" /\ args # <<>>
     THEN [ok |-> r.ok, text |-> literal \o args[1] \o r.text]
     ELSE [ok |-> FALSE, text |-> <<>>]

Spaces(n) == [i \in 1..n |-> " "]

\* "%-<width>s" % s
ljust(s, width) == IF Len(s) >= width THEN s ELSE s \o Spaces(width - Len(s))

\* os.path.basename
basename(path) ==
  LET cuts == {i \in 1..Len(path) : path[i] = "/"}
      last == IF cuts = {} THEN 0 ELSE CHOOSE i \in cuts : \A j \in cuts : j <= i
  IN SubSeq(path, last + 1, Len(path))

\* ------------------------------------------------------------------------
\* Constructor
\* ------------------------------------------------------------------------

NoId == -1

\* heap reference of the module-level OPT_DEFAULT_HELP dict
DefaultHelpId == 0

\* first descriptor of the list whose type is "help", or NoId
FindHelp(h, ids) ==
  LET hits == {i \in 1..Len(ids) : h[ids[i]].type = "help"}
  IN IF hits = {} THEN NoId
     ELSE ids[CHOOSE i \in hits : \A j \in hits : i <= j]

\* self.opt_help after the "add 'help' option if not provided" step
HelpOrDefault(found) == IF found = NoId THEN DefaultHelpId ELSE found

OptionsWithHelpNever(ids, found) == ids

OptionsWithHelpAlways(ids, found) == Append(ids, DefaultHelpId)

\* self.options after the "add 'help' option if not provided" step
OptionsWithHelp(ids, found) ==
  IF found = NoId THEN Append(ids, DefaultHelpId) ELSE ids

KnownTypes == {"normal", "switch", "positional", "help"}

\* the text attached to a descriptor as option["syntax"]
Syntax(option) ==
  CASE option.type = "normal" ->
         option.short \o <<",", " ">> \o option.long \o <<"=">> \o option.arg
    [] option.type = "switch" -> option.short \o <<",", " ">> \o option.long
    [] option.type = "positional" -> option.name
    [] option.type = "help" -> option.short \o <<",", " ">> \o option.long

PositionalNargsPassThrough(nargs) == nargs

\* nargs handed to add_argument for a positional descriptor
PositionalNargs(nargs) ==
  IF nargs.kind = "int" /\ nargs.n = 1 THEN NargsNone ELSE nargs

\* the add_argument call made for a descriptor
Argument(option) ==
  CASE option.type = "normal" ->
         [kind |-> "optional", strings |-> <<option.short, option.long>>,
          dest |-> option.name, nargs |-> NargsSym("?"), action |-> "store",
          default |-> IF option.default # Absent THEN VStr(option.default)
                      ELSE VNone]
    [] option.type = "switch" ->
         [kind |-> "optional", strings |-> <<option.short, option.long>>,
          dest |-> option.name, nargs |-> NargsInt(0),
          action |-> "store_true", default |-> VBool(FALSE)]
    [] option.type = "positional" ->
         [kind |-> "positional", strings |-> <<>>, dest |-> option.name,
          nargs |-> PositionalNargs(option.nargs), action |-> "store",
          default |-> VNone]
    [] option.type = "help" ->
         [kind |-> "optional", strings |-> <<option.short, option.long>>,
          dest |-> <<"h","e","l","p">>, nargs |-> NargsInt(0),
          action |-> "help", default |-> VNone]

OptionStrings(registered) ==
  {registered[i].strings[k] :
     i \in {j \in 1..Len(registered) : registered[j].kind = "optional"},
     k \in 1..2}

\* add_argument raises when an option string is already registered
Conflicts(registered, argument) ==
  /\ argument.kind = "optional"
  /\ \E k \in 1..2 : argument.strings[k] \in OptionStrings(registered)

RECURSIVE AddOptionsSkipUnknown(_, _, _, _)
AddOptionsSkipUnknown(h, ids, i, registered) ==
  IF i > Len(ids) THEN [ok |-> TRUE, heap |-> h, registered |-> registered]
  ELSE LET option == h[ids[i]]
       IN IF option.type \notin KnownTypes
          THEN AddOptionsSkipUnknown(h, ids, i + 1, registered)
          ELSE LET h2 == [h EXCEPT ![ids[i]].syntax = Syntax(option)]
               IN IF Conflicts(registered, Argument(option))
                  THEN [ok |-> FALSE, heap |-> h2, registered |-> registered]
                  ELSE AddOptionsSkipUnknown(h2, ids, i + 1,
                                             Append(registered, Argument(option)))

RECURSIVE AddOptions(_, _, _, _)
\* the "add provided options to parser" loop from descriptor i on: attaches
\* syntax, registers, and stops with ok = FALSE where an exception is raised
AddOptions(h, ids, i, registered) ==
  IF i > Len(ids) THEN [ok |-> TRUE, heap |-> h, registered |-> registered]
  ELSE LET option == h[ids[i]]
       IN IF option.type \notin KnownTypes
          THEN [ok |-> FALSE, heap |-> h, registered |-> registered]
          ELSE LET h2 == [h EXCEPT ![ids[i]].syntax = Syntax(option)]
               IN IF Conflicts(registered, Argument(option))
                  THEN [ok |-> FALSE, heap |-> h2, registered |-> registered]
                  ELSE AddOptions(h2, ids, i + 1,
                                  Append(registered, Argument(option)))

\* ------------------------------------------------------------------------
\* print_help
\* ------------------------------------------------------------------------

DisplayName(option) ==
  IF option.display # Absent THEN upper(option.display) ELSE upper(option.name)

RECURSIVE Repeat(_, _)
Repeat(s, n) == IF n <= 0 THEN <<>> ELSE s \o Repeat(s, n - 1)

RenderPositionalTight(option) ==
  CASE option.nargs.kind = "?" -> <<"[">> \o DisplayName(option) \o <<"]", " ">>
    [] option.nargs.kind = "+" -> DisplayName(option) \o <<".", ".", ".", " ">>
    [] option.nargs.kind = "*" ->
         <<"[">> \o DisplayName(option) \o <<"]", ".", ".", ".", " ">>
    [] OTHER -> Repeat(DisplayName(option) \o <<" ">>, option.nargs.n)

\* what one positional descriptor adds to the usage line
RenderPositional(option) ==
  CASE option.nargs.kind = "?" -> <<"[">> \o DisplayName(option) \o <<"]", " ">>
    [] option.nargs.kind = "+" -> DisplayName(option) \o <<".", ".", ".", " ">>
    [] option.nargs.kind = "*" ->
         <<"[">> \o DisplayName(option) \o <<"]", ".", ".", ".", " ">>
    [] OTHER -> Repeat(DisplayName(option) \o <<" ">>, option.nargs.n) \o <<" ">>

RECURSIVE Positional(_, _, _)
\* the positional segment of the usage line, from descriptor i on
Positional(h, ids, i) ==
  IF i > Len(ids) THEN <<>>
  ELSE (IF h[ids[i]].type = "positional" THEN RenderPositional(h[ids[i]])
        ELSE <<>>) \o Positional(h, ids, i + 1)

Max(S) == IF S = {} THEN 0 ELSE CHOOSE x \in S : \A y \in S : y <= x

maxlenListedOnly(h, ids) ==
  Max({Len(h[ids[i]].syntax) :
         i \in {j \in 1..Len(ids) : h[ids[j]].type # "positional"}})

\* the column width computed before the option lines are printed
maxlen(h, ids) == Max({Len(h[ids[i]].syntax) : i \in 1..Len(ids)})

\* template % (syntax, help) with template "  %-<width + 2>s%s"
OptionLine(option, width) ==
  <<" ", " ">> \o ljust(option.syntax, width + 2) \o option.help

\* the lines print_help prints after the usage line, in descriptor order
OptionLines(h, ids) ==
  LET listed == SelectSeq(ids, LAMBDA id : h[id].type # "positional")
  IN [i \in 1..Len(listed) |-> OptionLine(h[listed[i]], maxlen(h, ids))]

\* ------------------------------------------------------------------------
\* The wrapped engine: argparse's parse_args over the registered arguments
\* ------------------------------------------------------------------------

IsOptionWord(w) == w # <<>> /\ w[1] = "-"

EqualsAt(w) == FirstAt(w, "=")

\* index of the registered optional a command line word selects, 0 if none
ActionFor(registered, w) ==
  LET whole == {i \in 1..Len(registered) :
                  /\ registered[i].kind = "optional"
                  /\ \E k \in 1..2 : registered[i].strings[k] = w}
      head == IF EqualsAt(w) = 0 THEN w ELSE SubSeq(w, 1, EqualsAt(w) - 1)
      split == {i \in 1..Len(registered) :
                  /\ registered[i].kind = "optional"
                  /\ \E k \in 1..2 : registered[i].strings[k] = head}
  IN IF whole # {} THEN CHOOSE i \in whole : TRUE
     ELSE IF split # {} THEN CHOOSE i \in split : TRUE
     ELSE 0

\* the "=value" part of a word that selects an optional through its head
ExplicitArg(registered, w) ==
  IF EqualsAt(w) = 0 \/ \E i \in 1..Len(registered) :
                          /\ registered[i].kind = "optional"
                          /\ \E k \in 1..2 : registered[i].strings[k] = w
  THEN Absent
  ELSE SubSeq(w, EqualsAt(w) + 1, Len(w))

RECURSIVE ConsumeOptionals(_, _, _, _, _)
\* option words left to right: help ends the scan, an unknown word is kept
\* as an extra, a flag given "=value" it cannot take is an error
ConsumeOptionals(registered, words, i, values, extras) ==
  IF i > Len(words)
  THEN [kind |-> "done", values |-> values, extras |-> extras, message |-> ""]
  ELSE LET k == ActionFor(registered, words[i])
           explicit == ExplicitArg(registered, words[i])
       IN IF k = 0
          THEN ConsumeOptionals(registered, words, i + 1, values, TRUE)
          ELSE IF registered[k].action = "store"
          THEN ConsumeOptionals(registered, words, i + 1,
                 [values EXCEPT ![k] = IF explicit = Absent THEN VNone
                                       ELSE VStr(explicit)], extras)
          ELSE IF explicit # Absent
          THEN [kind |-> "error", values |-> values, extras |-> extras,
                message |-> "ignored explicit argument"]
          ELSE IF registered[k].action = "help"
          THEN [kind |-> "help", values |-> values, extras |-> extras,
                message |-> ""]
          ELSE ConsumeOptionals(registered, words, i + 1,
                 [values EXCEPT ![k] = VBool(TRUE)], extras)

\* fewest and most words a positional of the given arity takes out of n
Fewest(nargs) ==
  CASE nargs.kind = "None" -> 1
    [] nargs.kind = "int" -> nargs.n
    [] nargs.kind = "+" -> 1
    [] OTHER -> 0

Most(nargs, n) ==
  CASE nargs.kind = "None" -> 1
    [] nargs.kind = "int" -> nargs.n
    [] nargs.kind = "?" -> 1
    [] OTHER -> n

RECURSIVE SumFewest(_)
SumFewest(arities) ==
  IF arities = <<>> THEN 0 ELSE Fewest(Head(arities)) + SumFewest(Tail(arities))

RECURSIVE SumMost(_, _)
SumMost(arities, n) ==
  IF arities = <<>> THEN 0
  ELSE Most(Head(arities), n) + SumMost(Tail(arities), n)

\* the value stored for a positional: arity None and "?" give the word
\* itself, every other arity gives a list of words
PositionalValue(nargs, words) ==
  CASE nargs.kind = "None" -> VStr(words[1])
    [] nargs.kind = "?" -> IF words = <<>> THEN VNone ELSE VStr(words[1])
    [] OTHER -> VList(words)

RECURSIVE MatchPositionals(_, _)
\* greedy left-to-right matching of the positional words
MatchPositionals(arities, words) ==
  IF arities = <<>> THEN <<>>
  ELSE LET room == Len(words) - SumFewest(Tail(arities))
           most == Most(Head(arities), Len(words))
           take == IF most <= room THEN most ELSE room
       IN <<PositionalValue(Head(arities), SubSeq(words, 1, take))>>
          \o MatchPositionals(Tail(arities), SubSeq(words, take + 1, Len(words)))

\* parse_args for a command line whose positional words precede its options
Engine(registered, argv) ==
  LET optWords == SelectSeq(argv, IsOptionWord)
      posWords == SelectSeq(argv, LAMBDA w : ~IsOptionWord(w))
      posIdx == SelectSeq([i \in 1..Len(registered) |-> i],
                          LAMBDA i : registered[i].kind = "positional")
      arities == [j \in 1..Len(posIdx) |-> registered[posIdx[j]].nargs]
      scan == ConsumeOptionals(registered, optWords, 1,
                               [i \in 1..Len(registered) |-> registered[i].default],
                               FALSE)
      matched == MatchPositionals(arities, posWords)
      slot(i) == CHOOSE j \in 1..Len(posIdx) : posIdx[j] = i
      stored == SelectSeq([i \in 1..Len(registered) |-> i],
                          LAMBDA i : registered[i].action # "help")
  IN IF scan.kind # "done"
     THEN [kind |-> scan.kind, message |-> scan.message, namespace |-> <<>>]
     ELSE IF Len(posWords) < SumFewest(arities)
     THEN [kind |-> "error", message |-> "the following arguments are required",
           namespace |-> <<>>]
     ELSE IF scan.extras \/ Len(posWords) > SumMost(arities, Len(posWords))
     THEN [kind |-> "error", message |-> "unrecognized arguments",
           namespace |-> <<>>]
     ELSE [kind |-> "return", message |-> "",
           namespace |->
             [n \in 1..Len(stored) |->
                [dest |-> registered[stored[n]].dest,
                 value |-> IF registered[stored[n]].kind = "positional"
                           THEN matched[slot(stored[n])]
                           ELSE scan.values[stored[n]]]]]

\* ------------------------------------------------------------------------
\* State
\* ------------------------------------------------------------------------

VARIABLES
  heap,       \* descriptor dicts by reference; DefaultHelpId is the global
  lists,      \* the callers' descriptor lists, as sequences of references
  parser,     \* the ArgumentParser instances
  proc,       \* "running", "exited" (sys.exit) or "traceback" (uncaught)
  exitcode,   \* process exit status once proc # "running"
  stdout,     \* the texts printed, one element per print() call
  stderr,     \* the text written by exit(status, message)
  outcome,    \* the last call, the method it ended in, and how it ended
  namespace   \* the result of the last parse_args that returned

vars == <<heap, lists, parser, proc, exitcode, stdout, stderr, outcome, namespace>>

Parsers == {1, 2}

Lists == {1, 2}

\* list 1 owns the references 1..List2Base, list 2 the ones above
List2Base == MaxOpts + MaxOpts2

RecIds == 0..(List2Base + MaxOpts2)

\* a heap cell no caller list refers to
Unused ==
  Descriptor("unused", <<>>, Absent, Absent, Absent, NargsAbsent, <<>>)

Unbuilt ==
  [state |-> "unbuilt", options |-> 0, supplied |-> <<>>, opt_help |-> NoId,
   msg_error |-> <<>>, exc_error |-> 0, msg_usage |-> <<>>, exc_usage |-> 0,
   registered |-> <<>>]

\* the state before any constructor call, for the callers' two lists
InitWith(s1, s2) ==
  /\ heap = [id \in RecIds |->
               IF id = DefaultHelpId THEN OPT_DEFAULT_HELP
               ELSE IF id <= Len(s1) THEN s1[id]
               ELSE IF id > List2Base /\ id - List2Base <= Len(s2)
               THEN s2[id - List2Base]
               ELSE Unused]
  /\ lists = <<[i \in 1..Len(s1) |-> i], [i \in 1..Len(s2) |-> List2Base + i]>>
  /\ parser = [p \in Parsers |-> Unbuilt]
  /\ proc = "running"
  /\ exitcode = 0
  /\ stdout = <<>>
  /\ stderr = <<>>
  /\ outcome = [op |-> "none", method |-> "none", parser |-> 0, kind |-> "none",
                message |-> ""]
  /\ namespace = <<>>

\* one caller, one descriptor list, one parser
Init == \E s1 \in SeqsUpTo(Pool, MaxOpts) : InitWith(s1, <<>>)

\* two descriptor lists of distinct dicts, for two parsers
InitShared ==
  \E s1 \in SeqsUpTo(Pool2, MaxOpts2), s2 \in SeqsUpTo(Pool2, MaxOpts2) :
    InitWith(s1, s2)

\* an exception nobody catches: traceback, exit status 1
Uncaught(op, method, p, message) ==
  /\ proc' = "traceback"
  /\ exitcode' = 1
  /\ outcome' = [op |-> op, method |-> method, parser |-> p,
                 kind |-> "exception", message |-> message]

\* ArgumentParser(options, msg_error, exc_error, msg_usage, exc_usage)
Construct(p, l, cfg) ==
  /\ proc = "running"
  /\ parser[p].state = "unbuilt"
  /\ \A q \in Parsers : q < p => parser[q].state = "ready"
  /\ l <= p
  /\ LET found == FindHelp(heap, lists[l])
         options == OptionsWithHelp(lists[l], found)
         r == AddOptions(heap, options, 1, <<>>)
     IN /\ lists' = [lists EXCEPT ![l] = options]
        /\ heap' = r.heap
        /\ IF r.ok
           THEN /\ parser' = [parser EXCEPT ![p] =
                     [state |-> "ready", options |-> l, supplied |-> lists[l],
                      opt_help |-> HelpOrDefault(found),
                      msg_error |-> cfg.msg_error, exc_error |-> cfg.exc_error,
                      msg_usage |-> cfg.msg_usage, exc_usage |-> cfg.exc_usage,
                      registered |-> r.registered]]
                /\ outcome' = [op |-> "construct", method |-> "__init__",
                               parser |-> p, kind |-> "return",
                               message |-> ""]
                /\ UNCHANGED <<proc, exitcode>>
           ELSE /\ Uncaught("construct", "__init__", p, "")
                /\ UNCHANGED parser
  /\ UNCHANGED <<stdout, stderr, namespace>>

\* the body of print_help, reached from the caller or from the help action
print_help(p, argv0, op) ==
  LET ids == lists[parser[p].options]
      usage == Format(parser[p].msg_usage,
                      <<basename(argv0), Positional(heap, ids, 1)>>)
  IN /\ IF usage.ok
        THEN /\ stdout' = stdout \o <<usage.text>> \o OptionLines(heap, ids)
             /\ proc' = "exited"
             /\ exitcode' = parser[p].exc_usage
             /\ outcome' = [op |-> op, method |-> "print_help", parser |-> p,
                            kind |-> "help_exit", message |-> ""]
        ELSE /\ Uncaught(op, "print_help", p, "")
             /\ UNCHANGED stdout
     /\ UNCHANGED <<heap, lists, parser, stderr, namespace>>

\* the body of error(message), reached from the caller or from the engine
error(p, message, op) ==
  LET text == Format(parser[p].msg_error, <<heap[parser[p].opt_help].long>>)
  IN /\ IF text.ok
        THEN /\ stderr' = stderr \o text.text \o <<"\n">>
             /\ proc' = "exited"
             /\ exitcode' = parser[p].exc_error
             /\ outcome' = [op |-> op, method |-> "error", parser |-> p,
                            kind |-> "error_exit", message |-> message]
        ELSE /\ Uncaught(op, "error", p, message)
             /\ UNCHANGED stderr
     /\ UNCHANGED <<heap, lists, parser, stdout, namespace>>

\* the positional words of a command line come before its option words
Canonical(argv) ==
  \A i, j \in 1..Len(argv) : (i < j /\ IsOptionWord(argv[i])) => IsOptionWord(argv[j])

\* parser.parse_args(argv)
ParseArgs(p, argv, argv0) ==
  /\ proc = "running"
  /\ parser[p].state = "ready"
  /\ LET e == Engine(parser[p].registered, argv)
     IN CASE e.kind = "help" -> print_help(p, argv0, "parse_args")
          [] e.kind = "error" -> error(p, e.message, "parse_args")
          [] OTHER ->
               /\ namespace' = e.namespace
               /\ outcome' = [op |-> "parse_args", method |-> "parse_args",
                              parser |-> p, kind |-> "return",
                              message |-> ""]
               /\ UNCHANGED <<heap, lists, parser, proc, exitcode, stdout, stderr>>

\* parser.print_help() called directly
PrintHelp(p, argv0) ==
  /\ proc = "running"
  /\ parser[p].state = "ready"
  /\ print_help(p, argv0, "print_help")

\* parser.error(message) called directly
Error(p, message) ==
  /\ proc = "running"
  /\ parser[p].state = "ready"
  /\ error(p, message, "error")

CommandLines == {a \in SeqsUpTo(Tokens, MaxArgv) : Canonical(a)}

Next ==
  \/ \E cfg \in Configs : Construct(1, 1, cfg)
  \/ \E argv \in CommandLines, argv0 \in Argv0s : ParseArgs(1, argv, argv0)
  \/ \E argv0 \in Argv0s : PrintHelp(1, argv0)
  \/ \E message \in EngineMessages : Error(1, message)

Spec == Init /\ [][Next]_vars

NextShared ==
  \/ \E p \in Parsers, l \in Lists, cfg \in Configs : Construct(p, l, cfg)
  \/ \E p \in Parsers, argv \in CommandLines, argv0 \in Argv0s :
       ParseArgs(p, argv, argv0)
  \/ \E p \in Parsers, argv0 \in Argv0s : PrintHelp(p, argv0)
  \/ \E p \in Parsers, message \in EngineMessages : Error(p, message)

SpecShared == InitShared /\ [][NextShared]_vars

\* ------------------------------------------------------------------------
\* Properties
\* ------------------------------------------------------------------------

Ready(p) == parser[p].state = "ready"

\* the descriptor list a constructed parser holds, as heap references
Opts(p) == lists[parser[p].options]

HelpCount(h, ids) == Cardinality({i \in 1..Len(ids) : h[ids[i]].type = "help"})

HelpShown == outcome.method = "print_help" /\ outcome.kind = "help_exit"

\* the (name, nargs) pairs of the positional descriptors, in list order
PositionalsOf(h, ids) ==
  LET pos == SelectSeq(ids, LAMBDA id : h[id].type = "positional")
  IN [i \in 1..Len(pos) |-> <<h[pos[i]].name, h[pos[i]].nargs>>]

InfileThenOutfile ==
  <<<<(<<"i","n","f","i","l","e">>), NargsSym("+")>>,
    <<(<<"o","u","t","f","i","l","e">>), NargsInt(1)>>>>

\* C1: whenever error(message) has run, whatever the message, the process
\* has exited with the parser's exc_error and stderr holds the msg_error
\* template filled with the long flag of the help descriptor, plus newline.
C1_ErrorIsUniform ==
  outcome.method = "error" =>
    LET p == outcome.parser
        filled == Format(parser[p].msg_error, <<heap[parser[p].opt_help].long>>)
    IN /\ proc = "exited"
       /\ exitcode = parser[p].exc_error
       /\ filled.ok
       /\ stderr = filled.text \o <<"\n">>

\* C2: a parser built with the default messages and exit codes exits with
\* status 2 whenever error() runs and with status 0 whenever help is printed.
C2_DefaultExitCodes ==
  \A p \in Parsers :
    ( /\ Ready(p)
      /\ outcome.parser = p
      /\ parser[p].msg_error = MSG_SYNTAX_ERROR
      /\ parser[p].exc_error = EXITCODE_ERROR
      /\ parser[p].msg_usage = MSG_USAGE_HELP
      /\ parser[p].exc_usage = EXITCODE_USAGE )
    => /\ outcome.method = "error" => (proc = "exited" /\ exitcode = 2)
       /\ outcome.method = "print_help" => (proc = "exited" /\ exitcode = 0)

\* what construction leaves besides the number of help descriptors: a list
\* supplied without help has OPT_DEFAULT_HELP appended at its end, and every
\* descriptor carries the syntax text of its kind
AppendedAndSyntax(p) ==
  /\ HelpCount(heap, parser[p].supplied) = 0 =>
       /\ Opts(p) = Append(parser[p].supplied, DefaultHelpId)
       /\ heap[DefaultHelpId] =
            [OPT_DEFAULT_HELP EXCEPT
               !.syntax = <<"-","h",","," ","-","-","h","e","l","p">>]
  /\ HelpCount(heap, parser[p].supplied) > 0 => Opts(p) = parser[p].supplied
  /\ \A i \in 1..Len(Opts(p)) :
       LET d == heap[Opts(p)[i]]
       IN /\ d.syntax # Absent
          /\ d.type = "positional" => d.syntax = d.name
          /\ d.type \in {"switch", "help"} =>
               d.syntax = d.short \o <<",", " ">> \o d.long
          /\ d.type = "normal" =>
               d.syntax = d.short \o <<",", " ">> \o d.long \o <<"=">> \o d.arg

\* C3 (as claimed): after successful construction the list holds exactly one
\* help descriptor, however many were supplied; a list supplied without one
\* got the default appended at the end; every descriptor carries syntax.
C3_ExactlyOneHelp ==
  \A p \in Parsers :
    Ready(p) => (HelpCount(heap, Opts(p)) = 1 /\ AppendedAndSyntax(p))

\* C3 (amended): after successful construction the list holds one help
\* descriptor when none or one was supplied and all the supplied ones when
\* several were; a list supplied without one got the default appended at the
\* end; every descriptor carries syntax.
C3_HelpKeptOrAppended ==
  \A p \in Parsers :
    Ready(p) =>
      /\ HelpCount(heap, Opts(p)) =
           (IF HelpCount(heap, parser[p].supplied) = 0 THEN 1
            ELSE HelpCount(heap, parser[p].supplied))
      /\ HelpCount(heap, parser[p].supplied) <= 1 => HelpCount(heap, Opts(p)) = 1
      /\ AppendedAndSyntax(p)

C3_Witness ==
  \E p \in Parsers :
    /\ Ready(p)
    /\ Len(parser[p].supplied) >= 1
    /\ HelpCount(heap, parser[p].supplied) = 0
    /\ Opts(p)[Len(Opts(p))] = DefaultHelpId

HasUnknownType(l) == \E i \in 1..Len(lists[l]) : heap[lists[l][i]].type \notin KnownTypes

\* C4: over a list that holds a descriptor of unknown type, wherever it
\* stands, no parser ever becomes ready, and a constructor call made on the
\* list has ended in an exception.
C4_UnknownTypeFails ==
  HasUnknownType(1) =>
    /\ ~Ready(1)
    /\ outcome.op = "construct" =>
         (outcome.kind = "exception" /\ proc = "traceback")
    /\ outcome.op \in {"none", "construct"}

C4_Witness ==
  /\ Len(lists[1]) >= 2
  /\ heap[lists[1][1]].type \in KnownTypes
  /\ heap[lists[1][2]].type \notin KnownTypes
  /\ outcome.op = "construct"
  /\ outcome.kind = "exception"

\* the usage text the first print() of print_help writes for a segment
UsageWith(p, segment) ==
  {Format(parser[p].msg_usage, <<basename(argv0), segment>>).text :
     argv0 \in Argv0s}

\* C5 (as claimed): for positionals infile "+" then outfile 1 the positional
\* segment of the printed usage line is "INFILE... OUTFILE " with one
\* trailing space.
C5_SegmentOneTrailingSpace ==
  (HelpShown /\ PositionalsOf(heap, Opts(outcome.parser)) = InfileThenOutfile)
  => stdout[1] \in UsageWith(outcome.parser,
       <<"I","N","F","I","L","E",".",".","."," ","O","U","T","F","I","L","E",
         " ">>)

\* the rendering rule of one positional, each rendering closed by a space:
\* "?" -> [NAME], "+" -> NAME..., "*" -> [NAME]..., count n -> n times NAME
\* followed by a space
SegmentRule(d) ==
  LET N == upper(IF d.display # Absent THEN d.display ELSE d.name)
  IN (CASE d.nargs.kind = "?" -> <<"[">> \o N \o <<"]">>
        [] d.nargs.kind = "+" -> N \o <<".", ".", ".">>
        [] d.nargs.kind = "*" -> <<"[">> \o N \o <<"]", ".", ".", ".">>
        [] d.nargs.kind = "int" ->
             [k \in 1..(d.nargs.n * (Len(N) + 1)) |->
                IF k % (Len(N) + 1) = 0 THEN " " ELSE N[k % (Len(N) + 1)]])
     \o <<" ">>

RECURSIVE SegmentFrom(_, _, _)
SegmentFrom(h, ids, i) ==
  IF i > Len(ids) THEN <<>>
  ELSE (IF h[ids[i]].type = "positional" THEN SegmentRule(h[ids[i]]) ELSE <<>>)
       \o SegmentFrom(h, ids, i + 1)

\* C5 (amended): the positional segment is the renderings of the positional
\* descriptors in descriptor order, each followed by one space, where count n
\* renders as the name followed by a space n times; for positionals infile
\* "+" then outfile 1 it is "INFILE... OUTFILE  " with two trailing spaces.
C5_SegmentEachClosedBySpace ==
  HelpShown =>
    /\ stdout[1] \in UsageWith(outcome.parser,
                               SegmentFrom(heap, Opts(outcome.parser), 1))
    /\ PositionalsOf(heap, Opts(outcome.parser)) = InfileThenOutfile =>
         stdout[1] \in UsageWith(outcome.parser,
           <<"I","N","F","I","L","E",".",".","."," ","O","U","T","F","I","L",
             "E"," "," ">>)

C5_Witness ==
  /\ HelpShown
  /\ PositionalsOf(heap, Opts(outcome.parser)) = InfileThenOutfile

ListedOf(h, ids) == SelectSeq(ids, LAMBDA id : h[id].type # "positional")

WidestOf(h, ids) ==
  LET lens == {Len(h[ids[i]].syntax) : i \in 1..Len(ids)}
  IN IF lens = {} THEN 0 ELSE CHOOSE m \in lens : \A n \in lens : n <= m

\* C6 (as claimed): in every option line the help text starts M + 2
\* characters from the start of the line, M the longest syntax among the
\* non-positional descriptors.
C6_HelpAtMPlus2 ==
  HelpShown =>
    LET ids == Opts(outcome.parser)
        listed == ListedOf(heap, ids)
        M == WidestOf(heap, listed)
    IN \A i \in 1..Len(listed) :
         LET line == stdout[1 + i]
             d == heap[listed[i]]
         IN /\ Len(line) = M + 2 + Len(d.help)
            /\ SubSeq(line, M + 3, Len(line)) = d.help

\* C6 (amended): every option line is two spaces, the syntax left-aligned in
\* a field of M + 2 characters, then the help text, so the help text starts
\* M + 4 characters from the start of the line, M the longest syntax among
\* all descriptors, positional ones included.
C6_HelpAtMPlus4 ==
  HelpShown =>
    LET ids == Opts(outcome.parser)
        listed == ListedOf(heap, ids)
        M == WidestOf(heap, ids)
    IN /\ Len(stdout) = 1 + Len(listed)
       /\ \A i \in 1..Len(listed) :
            LET line == stdout[1 + i]
                d == heap[listed[i]]
            IN /\ Len(line) = M + 4 + Len(d.help)
               /\ SubSeq(line, M + 5, Len(line)) = d.help
               /\ SubSeq(line, 3, 2 + Len(d.syntax)) = d.syntax
               /\ \A k \in (1..2) \cup ((3 + Len(d.syntax))..(M + 4)) :
                    line[k] = " "

C6_Witness ==
  /\ HelpShown
  /\ LET ids == Opts(outcome.parser)
     IN /\ WidestOf(heap, ids) > WidestOf(heap, ListedOf(heap, ids))
        /\ Len(ListedOf(heap, ids)) >= 2

\* C7: a positional is registered with arity None (no list) exactly when its
\* descriptor's nargs is the integer 1 and with the descriptor's own nargs
\* otherwise; a parse that returns stores a single word, never a list, for a
\* positional whose nargs is 1.
C7_ScalarIffOne ==
  Ready(1) =>
    /\ Len(parser[1].registered) = Len(Opts(1))
    /\ \A i \in 1..Len(Opts(1)) :
         LET d == heap[Opts(1)[i]]
             r == parser[1].registered[i]
         IN d.type = "positional" =>
              /\ r.kind = "positional"
              /\ r.nargs = NargsNone <=> d.nargs = NargsInt(1)
              /\ d.nargs # NargsInt(1) => r.nargs = d.nargs
              /\ (outcome.op = "parse_args" /\ outcome.kind = "return"
                  /\ d.nargs = NargsInt(1)) =>
                   \A n \in 1..Len(namespace) :
                     namespace[n].dest = d.name => namespace[n].value.t = "str"

C7_Witness ==
  /\ Ready(1)
  /\ outcome.op = "parse_args"
  /\ outcome.kind = "return"
  /\ \E i \in 1..Len(Opts(1)) :
       /\ heap[Opts(1)[i]].type = "positional"
       /\ heap[Opts(1)[i]].nargs = NargsInt(1)
       /\ \E n \in 1..Len(namespace) :
            /\ namespace[n].dest = heap[Opts(1)[i]].name
            /\ namespace[n].value = VStr(<<"a">>)
  /\ \E i \in 1..Len(Opts(1)) : heap[Opts(1)[i]].nargs.kind \in {"+", "*"}

\* C8: a parse_args call on a constructed parser has ended in one of three
\* ways only: it returned, or the process exited through print_help with
\* exc_usage, or the process exited through error with exc_error.
C8_ThreeOutcomes ==
  outcome.op = "parse_args" =>
    LET p == outcome.parser
    IN \/ outcome.kind = "return" /\ proc = "running"
       \/ /\ outcome.kind = "help_exit"
          /\ proc = "exited"
          /\ exitcode = parser[p].exc_usage
       \/ /\ outcome.kind = "error_exit"
          /\ proc = "exited"
          /\ exitcode = parser[p].exc_error

\* the descriptors a parser holds: order, length and every field
View(p) == [i \in 1..Len(Opts(p)) |-> heap[Opts(p)[i]]]

\* C9: once a parser is constructed, no step (parse_args, print_help, error,
\* or the construction of another parser) changes its descriptor list: the
\* references, their order and every field of every descriptor stay.
C9_DescriptorsFrozen ==
  [][\A p \in Parsers :
       Ready(p) => (Opts(p)' = Opts(p) /\ View(p)' = View(p))]_vars

C9_Witness ==
  /\ Ready(1)
  /\ Ready(2)
  /\ parser[1].options # parser[2].options
  /\ outcome.op \in {"parse_args", "print_help", "error"}

\* C10: two parsers constructed from two distinct descriptor lists reach no
\* descriptor dict in common.
C10_NoSharedDescriptor ==
  \A p, q \in Parsers :
    (Ready(p) /\ Ready(q) /\ parser[p].options # parser[q].options) =>
      {Opts(p)[i] : i \in 1..Len(Opts(p))}
        \cap {Opts(q)[i] : i \in 1..Len(Opts(q))} = {}

====
